---- MODULE Spec2Model ----
(***************************************************************************)
(* Model of bot.py: a Telegram bot that keeps a MongoDB collection of      *)
(* subscribers (/start, /stop), fans content of three categories out to    *)
(* them (/news, /insights, /project) and registers three daily jobs with   *)
(* the `schedule` library after Application.run_polling() has returned.    *)
(*                                                                         *)
(* Handlers are coroutines: the code between two `await`s is one atomic    *)
(* step.  Spec is the program as built (one update handled at a time);     *)
(* SpecConcurrent lets the subscribe and unsubscribe handlers interleave   *)
(* at their `await`s.                                                      *)
(***************************************************************************)
EXTENDS Integers, Sequences, FiniteSets, TLC

(***************************************************************************)
(* Bounds of the model.                                                    *)
(***************************************************************************)
NumChats == 2
MaxInFlight == 2
MaxDay == 1
MaxRestarts == 1

Chats == 1..NumChats
Slots == 1..MaxInFlight

(***************************************************************************)
(* The subscribers collection: a sequence of documents {"chat_id": c} in   *)
(* insertion order.  The collection has no unique index.                   *)
(***************************************************************************)
None == [chat_id |-> 0]

Doc(c) == [chat_id |-> c]

Matches(coll, c) == {i \in 1..Len(coll) : coll[i].chat_id = c}

Min(S) == CHOOSE x \in S : \A y \in S : x <= y

\* subscribers_collection.find_one({"chat_id": chat_id})
find_one_always_none(coll, c) == None

find_one_first_doc(coll, c) == IF coll = <<>> THEN None ELSE coll[1]

find_one(coll, c) ==
    IF Matches(coll, c) = {} THEN None ELSE coll[Min(Matches(coll, c))]

\* subscribers_collection.insert_one({"chat_id": chat_id})
\* a write that replaces the collection by the one new document
insert_one_replace(coll, c) == <<Doc(c)>>

insert_one(coll, c) == Append(coll, Doc(c))

\* subscribers_collection.delete_one({"chat_id": chat_id})
delete_one_noop(coll, c) == coll

delete_one(coll, c) ==
    IF Matches(coll, c) = {} THEN coll
    ELSE LET i == Min(Matches(coll, c))
         IN  SubSeq(coll, 1, i - 1) \o SubSeq(coll, i + 1, Len(coll))

\* subscribers_collection.find(): the documents the cursor yields
find_skip_first(coll) == IF coll = <<>> THEN <<>> ELSE Tail(coll)

find(coll) == coll

\* subscriber["chat_id"] for every document of a sequence
Range(f) == {f[i] : i \in DOMAIN f}

RECURSIVE chat_ids(_)
chat_ids(docs) ==
    IF docs = <<>> THEN <<>> ELSE <<docs[1].chat_id>> \o chat_ids(Tail(docs))

Count(c, coll) == Cardinality(Matches(coll, c))

Recipients(coll) == {coll[i].chat_id : i \in 1..Len(coll)}

(***************************************************************************)
(* Replies of the subscribe / unsubscribe handlers.                        *)
(***************************************************************************)
NowSubscribed == "Hi! You are now subscribed to Web3 updates."
AlreadySubscribed == "You are already subscribed to Web3 updates."
Unsubscribed == "You have unsubscribed from Web3 updates."
NotSubscribed == "You are not subscribed to Web3 updates."
NoReply == "none"

(***************************************************************************)
(* Content providers.  A response is what requests.get(...).json() gives:  *)
(* ok = FALSE when the request or the JSON decoding raises; otherwise the  *)
(* body is a JSON list or a JSON dict with the given keys, and items is    *)
(* the list itself or the value of the dict's data key.                    *)
(***************************************************************************)
NoResponse == [ok |-> FALSE, type |-> "unset", keys |-> {}, items |-> <<>>]

NetErr == [ok |-> FALSE, type |-> "none", keys |-> {}, items |-> <<>>]

DictBody(keys, items) ==
    [ok |-> TRUE, type |-> "dict", keys |-> keys, items |-> items]

ListBody(items) ==
    [ok |-> TRUE, type |-> "list", keys |-> {}, items |-> items]

NewsResponses ==
    { NetErr,
      DictBody({"status", "totalResults", "articles"}, <<>>),
      DictBody({"status", "code", "message"}, <<>>),
      DictBody({"status", "totalResults", "articles"},
               <<"Headline 1", "Headline 2", "Headline 3", "Headline 4">>) }

TwitterResponses ==
    { NetErr,
      DictBody({"meta"}, <<>>),
      DictBody({"title", "detail", "status"}, <<>>),
      DictBody({"data", "meta"}, <<"Tweet X">>) }

CryptoResponses ==
    { NetErr,
      ListBody(<<>>),
      DictBody({"status"}, <<>>),
      ListBody(<<"Bitcoin">>) }

Raised == [raised |-> TRUE, text |-> <<>>]

Returned(t) == [raised |-> FALSE, text |-> t]

NoNews == <<"No Web3 news available at the moment.">>
NoInsights == <<"No insights available at the moment.">>
NoProjects == <<"No projects available at the moment.">>

TopN == 3

FirstN(s, n) == SubSeq(s, 1, IF Len(s) < n THEN Len(s) ELSE n)

fetch_web3_news(resp) ==
    IF ~resp.ok \/ resp.type # "dict" THEN Raised
    ELSE LET articles == IF "articles" \in resp.keys THEN resp.items ELSE <<>>
         IN  IF articles = <<>> THEN Returned(NoNews)
             ELSE Returned(FirstN(articles, TopN))

influencer_ids == 1..10

RECURSIVE Repeat(_, _)
Repeat(s, n) == IF n = 0 THEN <<>> ELSE s \o Repeat(s, n - 1)

\* every one of the requests of one call gets a response of the same shape
fetch_twitter_insights(resp) ==
    IF ~resp.ok THEN Raised
    ELSE LET tweet == IF resp.type = "dict" /\ "data" \in resp.keys
                         /\ resp.items # <<>>
                      THEN <<resp.items[1]>> ELSE <<>>
             insights == Repeat(tweet, Cardinality(influencer_ids))
         IN  IF insights = <<>> THEN Returned(NoInsights)
             ELSE Returned(insights)

fetch_crypto_projects(resp) ==
    IF ~resp.ok THEN Raised
    ELSE IF resp.type = "list" /\ resp.items = <<>> THEN Returned(NoProjects)
    ELSE IF resp.type = "dict" /\ resp.keys = {} THEN Returned(NoProjects)
    ELSE IF resp.type = "dict" THEN Raised
    ELSE Returned(resp.items)

Categories == {"news", "insights", "project"}

Header ==
    [news     |-> <<"Daily Web3 News Roundup:">>,
     insights |-> <<"Expert Insights:">>,
     project  |-> <<"Top 3 Crypto Projects:">>]

\* text=f"<header>\n{content}"
message_text(cat, content) == Header[cat] \o content

(***************************************************************************)
(* State.                                                                  *)
(*   subscribers  the documents of subscribers_collection                  *)
(*   phase        "polling" while application.run_polling() has not        *)
(*                returned, "scheduling" once main is in its while loop,   *)
(*                "dead" when an exception has ended the process           *)
(*   handlers     the handler coroutines, one per slot; the record of a    *)
(*                finished send_* run stays until the next update is taken *)
(*   hist         the last two find_one/insert_one/delete_one steps of     *)
(*                start and stop since run_polling began: the command, the *)
(*                collection it found and its reply, oldest first          *)
(*   clock        wall clock: day and hour of the current time window      *)
(*   ticked       the while loop has called run_pending in this window     *)
(*   next_run     per job, the absolute hour of Job.next_run (-1: the job  *)
(*                is not registered yet)                                   *)
(*   calls        per job, how often its function was called today         *)
(*   coroutine    per job, the coroutine object its last call returned     *)
(*   restarts     how often the process was killed and started again       *)
(***************************************************************************)
VARIABLES subscribers, phase, handlers, hist, clock, ticked,
          next_run, calls, coroutine, restarts

vars == <<subscribers, phase, handlers, hist, clock, ticked,
          next_run, calls, coroutine, restarts>>

Idle ==
    [kind |-> "none", chat_id |-> 0, pc |-> "idle", reply |-> NoReply,
     raised |-> FALSE, content |-> <<>>, store0 |-> <<>>, cursor |-> <<>>,
     delivered |-> <<>>, logged |-> FALSE, resp |-> NoResponse,
     fetches |-> 0]

Finished == {"done", "aborted"}

InFlight(s) == handlers[s].pc \in {"reply", "send"}

\* the application takes an update and calls its handler in slot s; the
\* records of handlers that have finished are dropped
Dispatch(s, rec) ==
    /\ phase = "polling"
    /\ ~InFlight(s)
    /\ handlers' = [t \in Slots |->
                      IF t = s THEN rec
                      ELSE IF InFlight(t) THEN handlers[t] ELSE Idle]

\* Application.builder().token(...).build() leaves concurrent_updates off:
\* an update is taken only when the handler of the one before has returned
process_update == \A t \in Slots : ~InFlight(t)

\* the slot of the one handler that runs when updates are handled in turn
the_slot == CHOOSE s \in Slots : \A t \in Slots : s <= t

Record(op, c, reply, pre) ==
    [op |-> op, chat_id |-> c, reply |-> reply, pre |-> pre]

Remember(rec) ==
    hist' = IF hist = <<>> THEN <<rec>> ELSE <<hist[Len(hist)], rec>>

(***************************************************************************)
(* /start and /stop.  Each runs up to its `await update.message.reply_text`*)
(* in one step; the reply completes (or fails in the transport) later.     *)
(***************************************************************************)
start(s, c) ==
    /\ LET absent == find_one(subscribers, c) = None
           reply  == IF absent THEN NowSubscribed ELSE AlreadySubscribed
       IN  /\ subscribers' = IF absent THEN insert_one(subscribers, c)
                             ELSE subscribers
           /\ Dispatch(s, [Idle EXCEPT !.kind = "start", !.chat_id = c,
                                       !.pc = "reply", !.reply = reply])
           /\ Remember(Record("start", c, reply, subscribers))
    /\ UNCHANGED <<restarts, phase, clock, ticked, next_run, calls, coroutine>>

stop(s, c) ==
    /\ LET present == find_one(subscribers, c) # None
           reply   == IF present THEN Unsubscribed ELSE NotSubscribed
       IN  /\ subscribers' = IF present THEN delete_one(subscribers, c)
                             ELSE subscribers
           /\ Dispatch(s, [Idle EXCEPT !.kind = "stop", !.chat_id = c,
                                       !.pc = "reply", !.reply = reply])
           /\ Remember(Record("stop", c, reply, subscribers))
    /\ UNCHANGED <<restarts, phase, clock, ticked, next_run, calls, coroutine>>

\* the handler exception that the Application catches: it is logged (no
\* error handler is registered) and run_polling goes on
process_error_reraised == "dead"

process_error == "polling"

\* find_one (or the insert_one / delete_one after it) raises because the
\* database cannot be reached: the exception leaves the handler before any
\* reply_text call, and the collection is as it was
store_raises(s, c, cmd) ==
    /\ Dispatch(s, [Idle EXCEPT !.kind = cmd, !.chat_id = c, !.pc = "aborted"])
    /\ phase' = process_error
    /\ UNCHANGED <<restarts, subscribers, hist, clock, ticked, next_run, calls,
                   coroutine>>

start_raises(s, c) == store_raises(s, c, "start")

stop_raises(s, c) == store_raises(s, c, "stop")

\* the awaited reply_text returns or raises: either way the handler is over
reply_text(s) ==
    /\ handlers[s].pc = "reply"
    /\ handlers' = [handlers EXCEPT ![s] = Idle]
    /\ UNCHANGED <<restarts, subscribers, phase, hist, clock, ticked, next_run,
                   calls, coroutine>>

(***************************************************************************)
(* send_news, send_insights, send_project_spotlight.  The fetch, the       *)
(* find() and the first send_message call are one step (no await between   *)
(* them); every `await bot.send_message` is a point where the coroutine    *)
(* is suspended.  An exception of the fetch or of a send leaves the        *)
(* coroutine at once.  In a record, cursor holds the chat ids still to be  *)
(* served, the first of them being the one whose send is awaited (or has   *)
(* raised), content what the fetch returned, delivered the messages sent,  *)
(* store0 the collection as it was when the body began, resp the response  *)
(* the fetch got and fetches the number of fetch_* calls made.             *)
(***************************************************************************)
\* a run that calls its provider once to test for content and once more
\* for the text
Run_fetch_twice(cat, fetched) ==
    [Idle EXCEPT !.kind = cat, !.store0 = subscribers,
                 !.raised = fetched.raised,
                 !.content = fetched.text,
                 !.fetches = 2]

Run(cat, fetched) ==
    [Idle EXCEPT !.kind = cat, !.store0 = subscribers,
                 !.raised = fetched.raised,
                 !.content = fetched.text,
                 !.fetches = 1]

\* a body that writes its log line before the loop instead of after it
Body_logs_first(cat, fetched) ==
    IF fetched.raised THEN [Run(cat, fetched) EXCEPT !.pc = "aborted"]
    ELSE LET cur == chat_ids(find(subscribers))
         IN  IF cur = <<>>
             THEN [Run(cat, fetched) EXCEPT !.pc = "done", !.logged = TRUE]
             ELSE [Run(cat, fetched) EXCEPT !.pc = "send", !.cursor = cur,
                                            !.logged = TRUE]

\* the body of a send_* coroutine up to its first suspension
Body(cat, fetched) ==
    IF fetched.raised THEN [Run(cat, fetched) EXCEPT !.pc = "aborted"]
    ELSE LET cur == chat_ids(find(subscribers))
         IN  IF cur = <<>>
             THEN [Run(cat, fetched) EXCEPT !.pc = "done", !.logged = TRUE]
             ELSE [Run(cat, fetched) EXCEPT !.pc = "send", !.cursor = cur]

\* where the process is after a step of a handler: an exception that left
\* the handler went to the Application
Outcome(rec) == IF rec.pc = "aborted" THEN process_error ELSE phase

send_news(s, resp) ==
    LET rec == [Body("news", fetch_web3_news(resp)) EXCEPT !.resp = resp]
    IN  /\ Dispatch(s, rec)
        /\ phase' = Outcome(rec)
        /\ UNCHANGED <<restarts, subscribers, hist, clock, ticked, next_run,
                       calls, coroutine>>

send_insights(s, resp) ==
    LET rec == [Body("insights", fetch_twitter_insights(resp)) EXCEPT !.resp = resp]
    IN  /\ Dispatch(s, rec)
        /\ phase' = Outcome(rec)
        /\ UNCHANGED <<restarts, subscribers, hist, clock, ticked, next_run,
                       calls, coroutine>>

send_project_spotlight(s, resp) ==
    LET rec == [Body("project", fetch_crypto_projects(resp)) EXCEPT !.resp = resp]
    IN  /\ Dispatch(s, rec)
        /\ phase' = Outcome(rec)
        /\ UNCHANGED <<restarts, subscribers, hist, clock, ticked, next_run,
                       calls, coroutine>>

\* a /news handler that also sends the text to the chat of its update
test_send_news_to_issuer(s, c) ==
    \E resp \in NewsResponses :
        LET run == [Body("news", fetch_web3_news(resp)) EXCEPT !.resp = resp]
            rec == IF run.raised THEN run
                   ELSE [run EXCEPT !.pc = "send", !.logged = FALSE,
                                    !.cursor = <<c>> \o run.cursor]
        IN  /\ Dispatch(s, rec)
            /\ phase' = Outcome(rec)
            /\ UNCHANGED <<restarts, subscribers, hist, clock, ticked,
                           next_run, calls, coroutine>>

\* /news, /insights, /project: the handler passes context.bot and nothing
\* of the update on
test_send_news(s, c) == \E resp \in NewsResponses : send_news(s, resp)

test_send_insights(s, c) == \E resp \in TwitterResponses : send_insights(s, resp)

test_send_project(s, c) ==
    \E resp \in CryptoResponses : send_project_spotlight(s, resp)

\* a loop that asks the collection anew for the recipients still to serve
Sent_requery(rec, ok) ==
    IF ~ok THEN [rec EXCEPT !.pc = "aborted"]
    ELSE LET served == Range(chat_ids(rec.delivered)) \cup {rec.cursor[1]}
             Waiting(c) == c \notin served
             rest == SelectSeq(chat_ids(find(subscribers)), Waiting)
         IN  [rec EXCEPT !.pc = IF rest = <<>> THEN "done" ELSE "send",
                         !.cursor = rest,
                         !.delivered = Append(rec.delivered,
                             [chat_id |-> rec.cursor[1],
                              text |-> message_text(rec.kind, rec.content)]),
                         !.logged = (rest = <<>>)]

\* the awaited send_message returns or raises; the loop goes on to the next
\* document of the cursor, or logs and returns after the last one
Sent(rec, ok) ==
    IF ~ok THEN [rec EXCEPT !.pc = "aborted"]
    ELSE LET rest == Tail(rec.cursor)
         IN  [rec EXCEPT !.pc = IF rest = <<>> THEN "done" ELSE "send",
                         !.cursor = rest,
                         !.delivered = Append(rec.delivered,
                             [chat_id |-> rec.cursor[1],
                              text |-> message_text(rec.kind, rec.content)]),
                         !.logged = (rest = <<>>)]

\* a loop that drops the recipient whose send has raised
send_message_unsubscribes(s) ==
    /\ handlers[s].pc = "send"
    /\ \E ok \in BOOLEAN :
           /\ handlers' = [handlers EXCEPT ![s] = Sent(handlers[s], ok)]
           /\ phase' = Outcome(Sent(handlers[s], ok))
           /\ subscribers' = IF ok THEN subscribers
                              ELSE delete_one(subscribers, handlers[s].cursor[1])
    /\ UNCHANGED <<restarts, hist, clock, ticked, next_run, calls, coroutine>>

send_message(s) ==
    /\ handlers[s].pc = "send"
    /\ \E ok \in BOOLEAN :
           /\ handlers' = [handlers EXCEPT ![s] = Sent(handlers[s], ok)]
           /\ phase' = Outcome(Sent(handlers[s], ok))
    /\ UNCHANGED <<restarts, subscribers, hist, clock, ticked, next_run,
                   calls, coroutine>>

\* Python's None
PyNone == [type |-> "NoneType"]

\* what `await send_news(bot)` evaluates to when the coroutine has returned:
\* the functions are declared -> None and end after logger.info without a
\* return statement
return_value(rec) == PyNone

\* the chat ids a run has called send_message for
Attempted(rec) ==
    chat_ids(rec.delivered)
        \o (IF rec.cursor = <<>> THEN <<>> ELSE <<rec.cursor[1]>>)

(***************************************************************************)
(* main.  run_polling() blocks until the application is stopped; only then *)
(* are the three daily jobs registered and the while loop entered.  The    *)
(* day is cut into windows that start at the hours below; the loop sleeps  *)
(* one second between ticks, so it ticks in every window it lives through. *)
(***************************************************************************)
Hours == {0, 8, 12, 16}

at_time == [news |-> 8, insights |-> 12, project |-> 16]

period == 24

Now == clock.day * period + clock.hour

\* Job._schedule_next_run of every().day.at(t): the next t o'clock after now
schedule_next_run(cat, now, last_run) ==
    LET nr == ((now \div period) + 1) * period + at_time[cat]
    IN  IF (last_run = -1 \/ nr - last_run > period)
           /\ at_time[cat] > now % period
        THEN nr - period ELSE nr

\* Job.should_run
should_run(cat) == next_run[cat] # -1 /\ Now >= next_run[cat]

\* send_news(bot) called without await: a coroutine object that has run
\* none of its body and that nothing will ever resume
Created(cat) == [Idle EXCEPT !.kind = cat, !.pc = "created"]

\* a stop signal ends run_polling once the handler in flight is through;
\* main goes on to lines 156-160
stop_polling ==
    /\ phase = "polling"
    /\ \A s \in Slots : ~InFlight(s)
    /\ phase' = "scheduling"
    /\ next_run' = [cat \in Categories |-> schedule_next_run(cat, Now, -1)]
    /\ ticked' = FALSE
    /\ hist' = <<>>
    /\ UNCHANGED <<restarts, subscribers, handlers, clock, calls, coroutine>>

\* one turn of `while True: schedule.run_pending(); time.sleep(1)`
run_pending ==
    /\ phase = "scheduling"
    /\ next_run' = [cat \in Categories |->
                      IF should_run(cat) THEN schedule_next_run(cat, Now, Now)
                      ELSE next_run[cat]]
    /\ calls' = [cat \in Categories |->
                      IF should_run(cat) THEN calls[cat] + 1 ELSE calls[cat]]
    /\ coroutine' = [cat \in Categories |->
                      IF should_run(cat) THEN Created(cat) ELSE coroutine[cat]]
    /\ ticked' = TRUE
    /\ UNCHANGED <<restarts, subscribers, phase, handlers, hist, clock>>

NextHour(h) == IF h = 16 THEN 0 ELSE Min({x \in Hours : x > h})

\* time passes into the next window of the day
pass_time ==
    /\ phase = "scheduling" => ticked
    /\ clock.hour = 16 => clock.day < MaxDay
    /\ clock' = [day  |-> IF clock.hour = 16 THEN clock.day + 1 ELSE clock.day,
                 hour |-> NextHour(clock.hour)]
    /\ calls' = IF clock.hour = 16 THEN [cat \in Categories |-> 0] ELSE calls
    /\ ticked' = FALSE
    /\ UNCHANGED <<restarts, subscribers, phase, handlers, hist, next_run, coroutine>>

\* what the new process finds in subscribers_collection: the collection is
\* kept by the MongoDB server, which the end of the bot process leaves alone
restart_store_in_memory(coll) == <<>>

restart_store(coll) == coll

\* the process is killed at any point and started again: the module level
\* and main run anew, nothing of the old process's memory is left
crash_restart ==
    /\ restarts < MaxRestarts
    /\ restarts' = restarts + 1
    /\ subscribers' = restart_store(subscribers)
    /\ phase' = "polling"
    /\ handlers' = [s \in Slots |-> Idle]
    /\ hist' = <<>>
    /\ ticked' = FALSE
    /\ next_run' = [cat \in Categories |-> -1]
    /\ calls' = [cat \in Categories |-> 0]
    /\ coroutine' = [cat \in Categories |-> Idle]
    /\ UNCHANGED clock

Init ==
    /\ subscribers = <<>>
    /\ phase = "polling"
    /\ handlers = [s \in Slots |-> Idle]
    /\ hist = <<>>
    /\ clock = [day |-> 0, hour |-> 0]
    /\ ticked = FALSE
    /\ next_run = [cat \in Categories |-> -1]
    /\ calls = [cat \in Categories |-> 0]
    /\ coroutine = [cat \in Categories |-> Idle]
    /\ restarts = 0

\* the program: updates are handled one at a time
Next ==
    \/ \E c \in Chats : process_update /\ start(the_slot, c)
    \/ \E c \in Chats : process_update /\ stop(the_slot, c)
    \/ \E c \in Chats : process_update /\ start_raises(the_slot, c)
    \/ \E c \in Chats : process_update /\ stop_raises(the_slot, c)
    \/ \E s \in Slots : reply_text(s)
    \/ \E c \in Chats : process_update /\ test_send_news(the_slot, c)
    \/ \E c \in Chats : process_update /\ test_send_insights(the_slot, c)
    \/ \E c \in Chats : process_update /\ test_send_project(the_slot, c)
    \/ \E s \in Slots : send_message(s)
    \/ stop_polling
    \/ run_pending
    \/ pass_time

Spec == Init /\ [][Next]_vars

\* the subscribe and unsubscribe handlers with concurrent update handling:
\* the coroutines interleave wherever they await
NextConcurrent ==
    \/ \E s \in Slots, c \in Chats : start(s, c)
    \/ \E s \in Slots, c \in Chats : stop(s, c)
    \/ \E s \in Slots : reply_text(s)

SpecConcurrent == Init /\ [][NextConcurrent]_vars

\* the slot of a handler that runs beside the one in the_slot
command_slot == CHOOSE s \in Slots \ {the_slot} :
                    \A t \in Slots \ {the_slot} : s <= t

\* a notify run with concurrent update handling: /start and /stop are
\* handled, one after the other, while the run is suspended in a
\* send_message
NextSnapshot ==
    \/ \E c \in Chats : start(command_slot, c)
    \/ \E c \in Chats : stop(command_slot, c)
    \/ \E s \in Slots : reply_text(s)
    \/ \E c \in Chats : test_send_news(the_slot, c)
    \/ \E s \in Slots : send_message(s)

SpecSnapshot == Init /\ [][NextSnapshot]_vars

\* the program while it polls: the commands, handled one at a time
NextTrigger ==
    \/ \E c \in Chats : process_update /\ start(the_slot, c)
    \/ \E c \in Chats : process_update /\ stop(the_slot, c)
    \/ \E s \in Slots : reply_text(s)
    \/ \E c \in Chats : process_update /\ test_send_news(the_slot, c)
    \/ \E c \in Chats : process_update /\ test_send_insights(the_slot, c)
    \/ \E c \in Chats : process_update /\ test_send_project(the_slot, c)
    \/ \E s \in Slots : send_message(s)

SpecTrigger == Init /\ [][NextTrigger]_vars

\* the program while it polls, with crashes of the process
NextCrash ==
    \/ \E c \in Chats : process_update /\ start(the_slot, c)
    \/ \E c \in Chats : process_update /\ stop(the_slot, c)
    \/ \E s \in Slots : reply_text(s)
    \/ \E c \in Chats : process_update /\ test_send_news(the_slot, c)
    \/ \E s \in Slots : send_message(s)
    \/ crash_restart

SpecCrash == Init /\ [][NextCrash]_vars

TypeOK ==
    /\ \A i \in 1..Len(subscribers) : subscribers[i].chat_id \in Chats
    /\ phase \in {"polling", "scheduling", "dead"}
    /\ clock.day \in 0..MaxDay /\ clock.hour \in Hours
    /\ restarts \in 0..MaxRestarts

(***************************************************************************)
(* Properties.                                                             *)
(***************************************************************************)
IsRun(rec) == rec.kind \in Categories

Both(op1, op2, c) ==
    /\ Len(hist) = 2
    /\ hist[1].op = op1 /\ hist[1].chat_id = c
    /\ hist[2].op = op2 /\ hist[2].chat_id = c

\* C1: /start for r twice in a row leaves exactly one entry for r; the first
\* call replies "now subscribed" exactly when r was absent, the second
\* replies "already subscribed" and leaves the collection as it found it.
SubscribeTwice ==
    \A c \in Chats :
        Both("start", "start", c) =>
            /\ hist[1].reply = (IF Count(c, hist[1].pre) = 0
                                THEN NowSubscribed ELSE AlreadySubscribed)
            /\ hist[2].reply = AlreadySubscribed
            /\ subscribers = hist[2].pre
            /\ Count(c, subscribers) = 1

SubscribeTwiceWitness ==
    \E c \in Chats :
        /\ Both("start", "start", c)
        /\ hist[1].reply = NowSubscribed
        /\ hist[1].pre # <<>>

\* C2: /stop for a recipient that is not subscribed replies "not subscribed"
\* and leaves the collection exactly as it was.
UnsubscribeAbsent ==
    \A c \in Chats :
        (/\ hist # <<>>
         /\ hist[Len(hist)].op = "stop"
         /\ hist[Len(hist)].chat_id = c
         /\ Count(c, hist[Len(hist)].pre) = 0)
        => /\ hist[Len(hist)].reply = NotSubscribed
           /\ subscribers = hist[Len(hist)].pre

UnsubscribeAbsentWitness ==
    /\ hist # <<>>
    /\ hist[Len(hist)].op = "stop"
    /\ hist[Len(hist)].reply = NotSubscribed
    /\ hist[Len(hist)].pre # <<>>

\* C3: /start for r followed by /stop for r: the /stop replies "unsubscribed",
\* the collection has no entry for r, and a find() over it does not yield r.
SubscribeThenUnsubscribe ==
    \A c \in Chats :
        Both("start", "stop", c) =>
            /\ hist[2].reply = Unsubscribed
            /\ Count(c, subscribers) = 0
            /\ c \notin Range(chat_ids(find(subscribers)))

SubscribeThenUnsubscribeWitness ==
    \E c \in Chats :
        /\ Both("start", "stop", c)
        /\ hist[1].reply = NowSubscribed
        /\ subscribers # <<>>

\* C4: a notify run whose fetch returned calls send_message for every
\* recipient that was subscribed when it began, whether or not a send failed.
FanOutComplete ==
    \A s \in Slots :
        (IsRun(handlers[s]) /\ handlers[s].pc \in Finished
            /\ ~handlers[s].raised)
        => Recipients(handlers[s].store0) \subseteq Range(Attempted(handlers[s]))

Fallback == [news |-> NoNews, insights |-> NoInsights, project |-> NoProjects]

\* C5: a notify run whose fetch raised still delivers the fallback text of
\* its category to every recipient that was subscribed when it began.
FallbackDelivered ==
    \A s \in Slots :
        (IsRun(handlers[s]) /\ handlers[s].pc \in Finished
            /\ handlers[s].raised)
        => \A c \in Recipients(handlers[s].store0) :
              [chat_id |-> c,
               text |-> Header[handlers[s].kind] \o Fallback[handlers[s].kind]]
                  \in Range(handlers[s].delivered)

\* C6: the tick that finds an entry due invokes the entry's notify run, for
\* the first and only time on that day, and the later ticks of the day
\* invoke nothing more.
DailyFireOnce ==
    [][\A cat \in Categories :
          (phase = "scheduling" /\ ticked' /\ clock' = clock) =>
              IF should_run(cat)
              THEN /\ calls'[cat] = 1
                   /\ coroutine'[cat].pc \in {"send", "done", "aborted"}
              ELSE calls'[cat] = calls[cat]]_vars

\* C7: while the command dispatcher is running, an entry whose due time has
\* gone by today has had its notify run started.
SchedulerIndependent ==
    \A cat \in Categories :
        (phase = "polling" /\ clock.day >= 1 /\ clock.hour > at_time[cat])
        => calls[cat] >= 1

\* C8: a scheduled trigger of a category delivers the same messages as a
\* manual trigger of that category that began from the same collection.
TriggerParity ==
    \A cat \in Categories, s \in Slots :
        (/\ coroutine[cat].pc # "idle"
         /\ handlers[s].kind = cat /\ handlers[s].pc = "done"
         /\ handlers[s].store0 = subscribers)
        => coroutine[cat].delivered = handlers[s].delivered

Suffix(t, n) == SubSeq(t, Len(t) - n + 1, Len(t))

\* C9: a manual trigger that ran to its end has sent exactly one message to
\* every recipient that was subscribed when it began and none to anyone
\* else, and every message ends with the text its provider returned.
ManualTriggerDelivers ==
    \A s \in Slots :
        (IsRun(handlers[s]) /\ handlers[s].pc = "done") =>
            /\ \A c \in Chats :
                  Cardinality({i \in 1..Len(handlers[s].delivered) :
                                 handlers[s].delivered[i].chat_id = c})
                     = (IF c \in Recipients(handlers[s].store0) THEN 1 ELSE 0)
            /\ \A i \in 1..Len(handlers[s].delivered) :
                  /\ handlers[s].content # <<>>
                  /\ Len(handlers[s].delivered[i].text) > Len(handlers[s].content)
                  /\ Suffix(handlers[s].delivered[i].text,
                            Len(handlers[s].content)) = handlers[s].content
            /\ handlers[s].store0 = <<>> => handlers[s].delivered = <<>>

ManualTriggerDeliversWitness ==
    \E s \in Slots :
        /\ IsRun(handlers[s]) /\ handlers[s].pc = "done"
        /\ Len(handlers[s].delivered) = NumChats
        /\ handlers[s].content \notin Range(Fallback)

\* C10: the collection never holds two documents of one chat id, however
\* the subscribe and unsubscribe handlers interleave.
AtMostOneRecord == \A c \in Chats : Count(c, subscribers) <= 1

AtMostOneRecordWitness ==
    \E s, t \in Slots :
        /\ s # t
        /\ handlers[s].kind = "start" /\ handlers[s].pc = "reply"
        /\ handlers[t].kind = "start" /\ handlers[t].pc = "reply"
        /\ handlers[s].chat_id = handlers[t].chat_id
        /\ Count(handlers[s].chat_id, subscribers) = 1

\* C11: a subscribe or unsubscribe command that met a store failure has
\* been answered with a reply to its user.
StoreFailureReported ==
    \A s \in Slots :
        (handlers[s].kind \in {"start", "stop"} /\ handlers[s].pc = "aborted")
        => handlers[s].reply # NoReply

\* the collection after the store step that the record h describes
After(h) ==
    IF h.reply = NowSubscribed THEN h.pre \o <<Doc(h.chat_id)>>
    ELSE IF h.reply = Unsubscribed
    THEN LET i == Min({j \in 1..Len(h.pre) : h.pre[j].chat_id = h.chat_id})
         IN  SubSeq(h.pre, 1, i - 1) \o SubSeq(h.pre, i + 1, Len(h.pre))
    ELSE h.pre

\* C12: a crash and restart of the process leaves the collection as it was,
\* which is what the last completed insert_one or delete_one made of it.
Durable ==
    [][restarts' # restarts =>
          /\ subscribers' = subscribers
          /\ hist # <<>> => subscribers' = After(hist[Len(hist)])]_vars

DurableWitness ==
    /\ restarts >= 1
    /\ hist = <<>>
    /\ subscribers # <<>>
    /\ \A s \in Slots : handlers[s] = Idle

\* the upstream API answered, and the answer carries no data: an empty list,
\* a body without the data field, or an error body
NoData(resp) == resp.ok /\ resp.items = <<>>

\* C13: a fetch whose response carries no data does not raise and returns
\* the fallback string of its category.
ProvidersFallBack ==
    \A s \in Slots :
        (IsRun(handlers[s]) /\ NoData(handlers[s].resp))
        => /\ ~handlers[s].raised
           /\ handlers[s].content = Fallback[handlers[s].kind]

\* C14: when the provider of one category has failed on its call, a notify
\* run of each other category that the schedule has started has delivered
\* to every subscribed recipient.
ProviderIsolation ==
    \A s \in Slots, cat \in Categories :
        (/\ IsRun(handlers[s]) /\ handlers[s].raised
         /\ handlers[s].kind # cat
         /\ coroutine[cat].pc # "idle")
        => Recipients(subscribers)
              \subseteq Range(chat_ids(coroutine[cat].delivered))

DeliveryReport ==
    \A s \in Slots :
        (IsRun(handlers[s]) /\ handlers[s].pc = "done")
        => LET report == return_value(handlers[s])
           IN  /\ report.type = "DeliveryReport"
               /\ report.attempted = Len(find(handlers[s].store0))
               /\ report.succeeded + report.failed = report.attempted

\* C17: a notify run sends at most one message to a recipient, and only to
\* recipients that were in the collection when the run read it, whatever
\* /start and /stop do to the collection while the run is delivering.
SnapshotDelivery ==
    \A s \in Slots :
        IsRun(handlers[s]) =>
            /\ \A c \in Chats : Count(c, handlers[s].delivered) <= 1
            /\ Range(Attempted(handlers[s]))
                  \subseteq Recipients(handlers[s].store0)

SnapshotDeliveryWitness ==
    \E s \in Slots :
        /\ IsRun(handlers[s]) /\ handlers[s].pc = "send"
        /\ handlers[s].cursor[1] \notin Recipients(subscribers)
        /\ Recipients(subscribers) \ Recipients(handlers[s].store0) # {}

\* C18: while a notify run is delivering and after it has ended, returned
\* or aborted, the collection is the one the run found when it began; the
\* recipient whose send raised is still subscribed.
RunLeavesSubscribers ==
    \A s \in Slots :
        IsRun(handlers[s]) =>
            /\ subscribers = handlers[s].store0
            /\ (handlers[s].pc = "aborted" /\ handlers[s].cursor # <<>>)
                  => handlers[s].cursor[1] \in Recipients(subscribers)

RunLeavesSubscribersWitness ==
    \E s \in Slots :
        /\ IsRun(handlers[s]) /\ handlers[s].pc = "aborted"
        /\ handlers[s].delivered # <<>>
        /\ handlers[s].cursor # <<>>
        /\ handlers[s].cursor[1] \in Recipients(subscribers)

\* C19: a notify run calls its provider once; it has sent nothing unless
\* that call returned, and every message it has sent carries the one text
\* made of what the call returned.
FetchOnce ==
    \A s \in Slots :
        IsRun(handlers[s]) =>
            /\ handlers[s].fetches = 1
            /\ handlers[s].delivered # <<>> => ~handlers[s].raised
            /\ \A i, j \in 1..Len(handlers[s].delivered) :
                  handlers[s].delivered[i].text = handlers[s].delivered[j].text
            /\ \A i \in 1..Len(handlers[s].delivered) :
                  handlers[s].delivered[i].text
                     = message_text(handlers[s].kind, handlers[s].content)

FetchOnceWitness ==
    \E s \in Slots :
        /\ IsRun(handlers[s]) /\ handlers[s].pc = "done"
        /\ Len(handlers[s].delivered) = 2
        /\ handlers[s].delivered[1].chat_id # handlers[s].delivered[2].chat_id
        /\ handlers[s].resp.items # <<>>

\* C20: /start and /stop of a recipient leave every other recipient as
\* subscribed as it was, and the handler sends no content message: it has
\* nothing to deliver and at most its one reply to the issuer.
CommandFrame ==
    /\ hist # <<>> =>
          \A q \in Chats \ {hist[Len(hist)].chat_id} :
              Count(q, subscribers) = Count(q, hist[Len(hist)].pre)
    /\ Len(hist) = 2 =>
          \A q \in Chats \ {hist[1].chat_id} :
              Count(q, hist[2].pre) = Count(q, hist[1].pre)
    /\ \A s \in Slots :
          handlers[s].kind \in {"start", "stop"} =>
              /\ handlers[s].delivered = <<>> /\ handlers[s].cursor = <<>>
              /\ handlers[s].content = <<>> /\ handlers[s].fetches = 0
              /\ handlers[s].pc = "reply" =>
                    /\ handlers[s].chat_id = hist[Len(hist)].chat_id
                    /\ handlers[s].reply = hist[Len(hist)].reply
                    /\ handlers[s].reply \in
                          {NowSubscribed, AlreadySubscribed,
                           Unsubscribed, NotSubscribed}

CommandFrameWitness ==
    \E s \in Slots, q \in Chats :
        /\ handlers[s].kind = "stop" /\ handlers[s].pc = "reply"
        /\ handlers[s].reply = Unsubscribed
        /\ Len(hist) = 2 /\ hist[1].reply = NowSubscribed
        /\ q # handlers[s].chat_id /\ q # hist[1].chat_id
        /\ Count(q, subscribers) = 1

\* the chat ids a run that has just begun is going to serve
Planned(rec) == IF rec.pc = "send" THEN rec.cursor ELSE <<>>

\* C21: a step that handles /news, /insights or /project of one chat is
\* also a step that handles the same command of any other chat, so the
\* recipients do not depend on the issuer; the run serves the chats of the
\* collection, and an issuer that is not in the collection is not served.
IssuerIndependent ==
    [][\A c \in Chats :
          /\ (process_update /\ test_send_news(the_slot, c))
                => /\ \A d \in Chats : test_send_news(the_slot, d)
                   /\ Range(Planned(handlers'[the_slot]))
                         \subseteq Recipients(subscribers)
                   /\ c \notin Recipients(subscribers)
                         => c \notin Range(Planned(handlers'[the_slot]))
          /\ (process_update /\ test_send_insights(the_slot, c))
                => /\ \A d \in Chats : test_send_insights(the_slot, d)
                   /\ Range(Planned(handlers'[the_slot]))
                         \subseteq Recipients(subscribers)
                   /\ c \notin Recipients(subscribers)
                         => c \notin Range(Planned(handlers'[the_slot]))
          /\ (process_update /\ test_send_project(the_slot, c))
                => /\ \A d \in Chats : test_send_project(the_slot, d)
                   /\ Range(Planned(handlers'[the_slot]))
                         \subseteq Recipients(subscribers)
                   /\ c \notin Recipients(subscribers)
                         => c \notin Range(Planned(handlers'[the_slot]))]_vars

IssuerIndependentWitness ==
    \E s \in Slots, c \in Chats :
        /\ IsRun(handlers[s]) /\ handlers[s].pc = "done"
        /\ handlers[s].delivered # <<>>
        /\ c \notin Recipients(handlers[s].store0)
        /\ c \notin Range(chat_ids(handlers[s].delivered))

\* C22: the log line "Sent ... to all subscribed users." of a notify run is
\* written only when the run has returned with a successful send to every
\* recipient it read; a run that is still sending, or that the fetch or a
\* send has aborted, has written none.
LoggedAfterAll ==
    /\ \A s \in Slots :
          IsRun(handlers[s]) =>
              /\ handlers[s].logged =>
                    /\ handlers[s].pc = "done" /\ ~handlers[s].raised
                    /\ chat_ids(handlers[s].delivered)
                          = chat_ids(find(handlers[s].store0))
              /\ handlers[s].pc \in {"send", "aborted"} => ~handlers[s].logged
    /\ \A cat \in Categories : ~coroutine[cat].logged

LoggedAfterAllWitness ==
    \E s \in Slots :
        /\ IsRun(handlers[s]) /\ handlers[s].logged
        /\ Len(handlers[s].delivered) = 2

====
